---------------------------- MODULE Spec2Model ----------------------------
(* A model of the AppManager service supervisor: the ServiceManager       *)
(* registry (src/src/manager.rs), the handlers that lock it               *)
(* (src/src/api.rs), the keep-alive loop (src/src/main.rs) and the OS     *)
(* process table the manager probes through sysinfo.                      *)
EXTENDS Integers, Sequences, FiniteSets, TLC

(* ------------------------------ bounds ------------------------------ *)
\* PIDs the OS hands out: 1..MaxPid (a freed PID is handed out again).
MaxPid == 2
\* Longest `services` sequence of the config file read at startup.
MaxFile == 2
\* Longest id sequence a reorder request carries.
MaxOrder == 2
\* Budgets that cut a behaviour short: the external process events plus the
\* lock acquisitions after startup, for the whole program (Spec) and for
\* each narrower specification.
MaxSteps == 1
MaxRegistrySteps == 1
MaxLifeSteps == 2
MaxLockSteps == 2
MaxWatchSteps == 3
MaxProbeSteps == 1

(* ------------------------------- data ------------------------------- *)
Ids == {"a", "b"}
\* An id no definition of the model carries (an unknown id of a request).
UnknownId == "z"
Pids == 1..MaxPid
Tasks == {"api1", "api2", "monitor"}
\* Keep-alive intervals (seconds) a config file or a request carries.
KeepAlives == {0, 1}

\* Option<T>: None is {}, Some(x) is {x}.
NoneOpt == {}
Some(x) == {x}
IsSome(o) == o # {}
Unwrap(o) == CHOOSE x \in o : TRUE

\* The `listen` entry of a config file.
Listens == {Some("0.0.0.0:3000")}

\* ServiceConfig: the fields the manager reads (id, exec, autorun); the
\* other fields are carried along unread.
DefA1 == [id |-> "a", exec |-> "bin/web", autorun |-> {TRUE}]
DefA2 == [id |-> "a", exec |-> "db",      autorun |-> {}]
DefB1 == [id |-> "b", exec |-> "db",      autorun |-> {TRUE}]
DefB2 == [id |-> "b", exec |-> "web",     autorun |-> {FALSE}]
Defs == {DefA1, DefA2, DefB1, DefB2}

\* Names a process of the OS table can carry.
ProcNames == {"web", "WEB.EXE", "db"}

\* str::to_ascii_lowercase on the names of the model.
Lower(s) == CASE s = "WEB.EXE" -> "web.exe"
              [] s = "WEB"     -> "web"
              [] s = "DB"      -> "db"
              [] OTHER         -> s

eq_ignore_ascii_case(x, y) == Lower(x) = Lower(y)

\* Path::file_name of the exec paths of the model (unwrap_or: the path).
exec_file_name(exec_path) == CASE exec_path = "bin/web" -> "web"
                               [] OTHER                 -> exec_path

\* svc.config.autorun.unwrap_or(false)
AutorunOf(config) == IF IsSome(config.autorun) THEN Unwrap(config.autorun) ELSE FALSE

\* ManagedService::new
ManagedService(config) ==
    [config |-> config, process |-> NoneOpt, last_known_pid |-> NoneOpt]

\* Every order in which an unordered collection (HashMap, the sysinfo
\* process map) can be iterated.
Orders(S) == {s \in [1..Cardinality(S) -> S] : \A i, j \in DOMAIN s : i # j => s[i] # s[j]}

Range(s) == {s[i] : i \in DOMAIN s}

\* Sequences over S of length at most n.
SeqsUpTo(S, n) == UNION {[1..k -> S] : k \in 0..n}

(* --------------------------- OS process table ----------------------- *)
\* One entry per PID: free, live, or a zombie (exited, not yet reaped by
\* the manager, which still holds its Child handle: the PID stays taken).
FreeProc == [st |-> "free", name |-> "", ppid |-> 0]
LiveProc(name, ppid) == [st |-> "live", name |-> name, ppid |-> ppid]

\* sysinfo refresh_processes: the snapshot is the set of live PIDs.
Snapshot(pr) == {p \in Pids : pr[p].st = "live"}

\* Whether some manager record holds a Child handle on pid.
Held(svcs, p) == \E i \in DOMAIN svcs : svcs[i].process = Some(p)

\* Process p ends (exit or kill): it stays a zombie while a handle holds it,
\* its children are re-parented.
Die(svcs, pr, p) ==
    [q \in Pids |->
        IF q = p THEN (IF Held(svcs, p) THEN [pr[p] EXCEPT !.st = "zombie"] ELSE FreeProc)
        ELSE IF pr[q].ppid = p THEN [pr[q] EXCEPT !.ppid = 0]
        ELSE pr[q]]

\* Child::try_wait / wait on an exited child: the PID is released.
Reap(pr, p) ==
    [q \in Pids |-> IF q = p THEN FreeProc
                    ELSE IF pr[q].ppid = p THEN [pr[q] EXCEPT !.ppid = 0]
                    ELSE pr[q]]


(* ------------------------- ServiceManager --------------------------- *)
\* The name test of is_running (manager.rs 131-134): the basename, or the
\* basename with ".exe" appended, compared ignoring ASCII case.
MatchesRunning(n, target) ==
    eq_ignore_ascii_case(n, target) \/ eq_ignore_ascii_case(n, target \o ".exe")

\* The name test of new (manager.rs 80-83) and of stop's sweep (247-248).
MatchesExact(n, target) == eq_ignore_ascii_case(n, target)

\* is_running taking a held handle for a running child without try_wait.
is_running_TrustsHandle(svcs, pr, id) ==
    IF id \notin DOMAIN svcs THEN [services |-> svcs, procs |-> pr, running |-> FALSE]
    ELSE IF IsSome(svcs[id].process) THEN [services |-> svcs, procs |-> pr, running |-> TRUE]
    ELSE LET last_pid == svcs[id].last_known_pid
             target   == exec_file_name(svcs[id].config.exec)
         IN  [services |-> svcs, procs |-> pr,
              running  |-> \/ (IsSome(last_pid) /\ Unwrap(last_pid) \in Snapshot(pr))
                           \/ \E p \in Snapshot(pr) : MatchesRunning(pr[p].name, target)]

\* ServiceManager::is_running: the registry and the process table after the
\* call (try_wait reaps an exited child and the handle is dropped), and the
\* result.
is_running(svcs, pr, id) ==
    LET held  == id \in DOMAIN svcs /\ IsSome(svcs[id].process)
        alive == held /\ pr[Unwrap(svcs[id].process)].st = "live"
        svcs1 == IF held /\ ~alive THEN [svcs EXCEPT ![id].process = NoneOpt] ELSE svcs
        pr1   == IF held /\ ~alive THEN Reap(pr, Unwrap(svcs[id].process)) ELSE pr
        snap  == Snapshot(pr1)
    IN  IF alive THEN [services |-> svcs, procs |-> pr, running |-> TRUE]
        ELSE IF id \notin DOMAIN svcs1
             THEN [services |-> svcs1, procs |-> pr1, running |-> FALSE]
        ELSE LET last_pid == svcs1[id].last_known_pid
                 target   == exec_file_name(svcs1[id].config.exec)
             IN  [services |-> svcs1, procs |-> pr1,
                  running  |-> \/ (IsSome(last_pid) /\ Unwrap(last_pid) \in snap)
                               \/ \E p \in snap : MatchesRunning(pr1[p].name, target)]

\* The outcomes of Command::spawn when start reaches it: 0 (the OS rejects
\* the process) or the free PID the child gets. When start does not reach
\* spawn the outcome is not drawn (0).
SpawnChoices(svcs, pr, id) ==
    LET r == is_running(svcs, pr, id)
    IN  IF r.running \/ id \notin DOMAIN r.services THEN {0}
        ELSE {0} \cup {q \in Pids : r.procs[q].st = "free"}

\* start without its is_running test: spawn is reached on every call for a
\* registered id.
start_SpawnsRegardless(svcs, pr, id, q) ==
    IF id \notin DOMAIN svcs
    THEN [services |-> svcs, procs |-> pr, ok |-> FALSE,
          running |-> FALSE, spawned |-> {}, attempts |-> 0]
    ELSE IF q = 0 \/ pr[q].st # "free"
    THEN [services |-> svcs, procs |-> pr, ok |-> FALSE,
          running |-> FALSE, spawned |-> {}, attempts |-> 1]
    ELSE [services |-> [svcs EXCEPT ![id].process = Some(q), ![id].last_known_pid = Some(q)],
          procs    |-> [pr EXCEPT ![q] = LiveProc(exec_file_name(svcs[id].config.exec), 0)],
          ok |-> TRUE, running |-> FALSE, spawned |-> {q}, attempts |-> 1]

\* start dropping the error of Command::spawn: a rejected spawn is reported
\* as success.
start_SwallowsSpawnError(svcs, pr, id, q) ==
    LET r == is_running(svcs, pr, id)
    IN  IF r.running
        THEN [services |-> r.services, procs |-> r.procs, ok |-> TRUE,
              running |-> TRUE, spawned |-> {}, attempts |-> 0]
        ELSE IF id \notin DOMAIN r.services
        THEN [services |-> r.services, procs |-> r.procs, ok |-> FALSE,
              running |-> FALSE, spawned |-> {}, attempts |-> 0]
        ELSE IF q = 0
        THEN [services |-> r.services, procs |-> r.procs, ok |-> TRUE,
              running |-> FALSE, spawned |-> {}, attempts |-> 1]
        ELSE [services |-> [r.services EXCEPT ![id].process = Some(q),
                                              ![id].last_known_pid = Some(q)],
              procs    |-> [r.procs EXCEPT
                              ![q] = LiveProc(exec_file_name(r.services[id].config.exec), 0)],
              ok |-> TRUE, running |-> FALSE, spawned |-> {q}, attempts |-> 1]

\* start recording the PID of the child only when no last-known PID is
\* recorded yet.
start_KeepsOldPid(svcs, pr, id, q) ==
    LET r == is_running(svcs, pr, id)
    IN  IF r.running
        THEN [services |-> r.services, procs |-> r.procs, ok |-> TRUE,
              running |-> TRUE, spawned |-> {}, attempts |-> 0]
        ELSE IF id \notin DOMAIN r.services
        THEN [services |-> r.services, procs |-> r.procs, ok |-> FALSE,
              running |-> FALSE, spawned |-> {}, attempts |-> 0]
        ELSE IF q = 0
        THEN [services |-> r.services, procs |-> r.procs, ok |-> FALSE,
              running |-> FALSE, spawned |-> {}, attempts |-> 1]
        ELSE [services |-> [r.services EXCEPT
                              ![id].process = Some(q),
                              ![id].last_known_pid =
                                  IF IsSome(r.services[id].last_known_pid)
                                  THEN r.services[id].last_known_pid ELSE Some(q)],
              procs    |-> [r.procs EXCEPT
                              ![q] = LiveProc(exec_file_name(r.services[id].config.exec), 0)],
              ok |-> TRUE, running |-> FALSE, spawned |-> {q}, attempts |-> 1]

\* ServiceManager::start with spawn outcome q.
start(svcs, pr, id, q) ==
    LET r == is_running(svcs, pr, id)
    IN  IF r.running
        THEN [services |-> r.services, procs |-> r.procs, ok |-> TRUE,
              running |-> TRUE, spawned |-> {}, attempts |-> 0]
        ELSE IF id \notin DOMAIN r.services
        THEN [services |-> r.services, procs |-> r.procs, ok |-> FALSE,
              running |-> FALSE, spawned |-> {}, attempts |-> 0]
        ELSE IF q = 0
        THEN [services |-> r.services, procs |-> r.procs, ok |-> FALSE,
              running |-> FALSE, spawned |-> {}, attempts |-> 1]
        ELSE [services |-> [r.services EXCEPT ![id].process = Some(q),
                                              ![id].last_known_pid = Some(q)],
              procs    |-> [r.procs EXCEPT
                              ![q] = LiveProc(exec_file_name(r.services[id].config.exec), 0)],
              ok |-> TRUE, running |-> FALSE, spawned |-> {q}, attempts |-> 1]

\* The members of S in the order ord lists them.
InOrder(ord, S) == LET Test(p) == p \in S IN SelectSeq(ord, Test)

\* The kill loops of stop giving up at the first kill the OS refuses: the
\* PIDs after it are not sent their kill.
KillAll_StopsAtRefusal(svcs, pr, seq, fail) ==
    LET refused == {i \in DOMAIN seq : seq[i] \in fail}
        sent    == {seq[i] : i \in {j \in DOMAIN seq : \A k \in refused : j < k}}
        killed  == sent \cap Snapshot(pr)
    IN  [q \in Pids |->
            IF q \in killed
            THEN (IF Held(svcs, q) THEN [pr[q] EXCEPT !.st = "zombie"] ELSE FreeProc)
            ELSE IF pr[q].ppid \in killed THEN [pr[q] EXCEPT !.ppid = 0]
            ELSE pr[q]]

\* sysinfo Process::kill sent to each PID of seq in turn; a kill of a PID in
\* fail is refused by the OS.
RECURSIVE KillAll(_, _, _, _)
KillAll(svcs, pr, seq, fail) ==
    IF seq = <<>> THEN pr
    ELSE LET p == Head(seq)
         IN  KillAll(svcs,
                     IF p \notin fail /\ pr[p].st = "live" THEN Die(svcs, pr, p) ELSE pr,
                     Tail(seq), fail)

\* The log of the kills sent to seq: Process::kill returns false for a PID in
\* fail.
KillLog(seq, via, fail) ==
    [i \in 1..Len(seq) |-> [pid |-> seq[i], via |-> via, done |-> seq[i] \notin fail]]

\* The tree kill of stop without its search for children.
children_None(pr, parent_pid) == {}

\* The children stop collects (manager.rs 209-213): the processes of the
\* snapshot whose parent is parent_pid.
children(pr, parent_pid) == {p \in Snapshot(pr) : pr[p].ppid = parent_pid}

\* stop taking the handle without kill and wait: the child is left running.
stop_LeavesChildRunning(svcs, pr, id, fail, ord) ==
    IF id \notin DOMAIN svcs
    THEN [services |-> svcs, procs |-> pr, ok |-> FALSE, kills |-> <<>>]
    ELSE
    LET svc       == svcs[id]
        target    == IF IsSome(svc.last_known_pid) THEN svc.last_known_pid ELSE svc.process
        tree      == IsSome(target) /\ Unwrap(target) > 0
        childSeq  == InOrder(ord, IF tree THEN children(pr, Unwrap(target)) ELSE {})
        pr1       == KillAll(svcs, pr, childSeq, fail)
        viaHandle == IsSome(svc.process)
        svcs2     == [svcs EXCEPT ![id].process = NoneOpt]
        orphan    == ~viaHandle /\ tree /\ Unwrap(target) \in Snapshot(pr)
        mainSeq   == IF orphan THEN <<Unwrap(target)>> ELSE <<>>
        pr2       == KillAll(svcs2, pr1, mainSeq, fail)
    IN  [services |-> [svcs2 EXCEPT ![id].last_known_pid = NoneOpt],
         procs    |-> pr2,
         ok       |-> TRUE,
         kills    |-> KillLog(childSeq, "child", fail) \o KillLog(mainSeq, "pid", fail)]

\* stop forgetting the last-known PID only once its process is gone.
stop_KeepsPidOfSurvivor(svcs, pr, id, fail, ord) ==
    IF id \notin DOMAIN svcs
    THEN [services |-> svcs, procs |-> pr, ok |-> FALSE, kills |-> <<>>]
    ELSE
    LET svc       == svcs[id]
        target    == IF IsSome(svc.last_known_pid) THEN svc.last_known_pid ELSE svc.process
        tree      == IsSome(target) /\ Unwrap(target) > 0
        snap1     == Snapshot(pr)
        childSeq  == InOrder(ord, IF tree THEN children(pr, Unwrap(target)) ELSE {})
        pr1       == KillAll(svcs, pr, childSeq, fail)
        viaHandle == IsSome(svc.process)
        svcs2     == [svcs EXCEPT ![id].process = NoneOpt]
        orphan    == ~viaHandle /\ tree /\ Unwrap(target) \in snap1
        mainSeq   == IF viaHandle THEN <<Unwrap(svc.process)>>
                     ELSE IF orphan THEN <<Unwrap(target)>> ELSE <<>>
        pr2       == IF viaHandle THEN Reap(pr1, Unwrap(svc.process))
                     ELSE KillAll(svcs2, pr1, mainSeq, fail)
        target_name == exec_file_name(svc.config.exec)
        snap2     == Snapshot(pr2)
        remaining == {p \in snap2 : MatchesExact(pr2[p].name, target_name)}
        sweepSeq  == InOrder(ord, remaining)
        pr3       == KillAll(svcs2, pr2, sweepSeq, fail)
        survives  == tree /\ pr3[Unwrap(target)].st = "live"
    IN  [services |-> IF survives THEN svcs2
                      ELSE [svcs2 EXCEPT ![id].last_known_pid = NoneOpt],
         procs    |-> pr3,
         ok       |-> TRUE,
         kills    |-> KillLog(childSeq, "child", fail)
                      \o KillLog(mainSeq, IF viaHandle THEN "handle" ELSE "pid",
                                 IF viaHandle THEN {} ELSE fail)
                      \o KillLog(sweepSeq, "name", fail)]

\* ServiceManager::stop. fail: the PIDs whose kill the OS refuses; ord: the
\* order in which the sysinfo process map is iterated. kills lists the kills
\* sent, in the order sent.
stop(svcs, pr, id, fail, ord) ==
    IF id \notin DOMAIN svcs
    THEN [services |-> svcs, procs |-> pr, ok |-> FALSE, kills |-> <<>>]
    ELSE
    LET svc       == svcs[id]
        target    == IF IsSome(svc.last_known_pid) THEN svc.last_known_pid ELSE svc.process
        tree      == IsSome(target) /\ Unwrap(target) > 0
        snap1     == Snapshot(pr)
        childSeq  == InOrder(ord, IF tree THEN children(pr, Unwrap(target)) ELSE {})
        pr1       == KillAll(svcs, pr, childSeq, fail)
        viaHandle == IsSome(svc.process)
        svcs2     == [svcs EXCEPT ![id].process = NoneOpt]
        orphan    == ~viaHandle /\ tree /\ Unwrap(target) \in snap1
        mainSeq   == IF viaHandle THEN <<Unwrap(svc.process)>>
                     ELSE IF orphan THEN <<Unwrap(target)>> ELSE <<>>
        pr2       == IF viaHandle THEN Reap(pr1, Unwrap(svc.process))
                     ELSE KillAll(svcs2, pr1, mainSeq, fail)
        target_name == exec_file_name(svc.config.exec)
        snap2     == Snapshot(pr2)
        remaining == {p \in snap2 : MatchesExact(pr2[p].name, target_name)}
        sweepSeq  == InOrder(ord, remaining)
        pr3       == KillAll(svcs2, pr2, sweepSeq, fail)
    IN  [services |-> [svcs2 EXCEPT ![id].last_known_pid = NoneOpt],
         procs    |-> pr3,
         ok       |-> TRUE,
         kills    |-> KillLog(childSeq, "child", fail)
                      \o KillLog(mainSeq, IF viaHandle THEN "handle" ELSE "pid",
                                 IF viaHandle THEN {} ELSE fail)
                      \o KillLog(sweepSeq, "name", fail)]

\* The PIDs a stop sent a sysinfo kill to: the kills the OS can refuse (the
\* kill through the Child handle is followed by wait, which returns only
\* when the child is gone).
Refusable(kills) == {kills[i].pid : i \in {j \in DOMAIN kills : kills[j].via # "handle"}}

\* ServiceManager::list: one is_running per id of the order list, in order.
RECURSIVE list_from(_, _, _, _)
list_from(svcs, pr, order, results) ==
    IF order = <<>> THEN [services |-> svcs, procs |-> pr, results |-> results]
    ELSE LET id == Head(order)
         IN  IF id \in DOMAIN svcs
             THEN LET r == is_running(svcs, pr, id)
                  IN  list_from(r.services, r.procs, Tail(order),
                                Append(results, [config  |-> r.services[id].config,
                                                 running |-> r.running,
                                                 pid     |-> r.services[id].last_known_pid]))
             ELSE list_from(svcs, pr, Tail(order), results)

\* list walking the keys of the map instead of the order list.
list_ByMapKeys(svcs, pr, order) ==
    LET keys == CHOOSE o \in Orders(DOMAIN svcs) :
                    o # order \/ Cardinality(DOMAIN svcs) < 2
    IN  list_from(svcs, pr, keys, <<>>)

list(svcs, pr, order) == list_from(svcs, pr, order, <<>>)


\* The ServicesFile save_to_disk builds: the configs in order-list order
\* (an id already saved or not in the map is skipped), keep_alive absent
\* when the interval is 0.
RECURSIVE saved_configs(_, _, _)
saved_configs(svcs, order, saved_ids) ==
    IF order = <<>> THEN <<>>
    ELSE LET id == Head(order)
         IN  IF id \in saved_ids \/ id \notin DOMAIN svcs
             THEN saved_configs(svcs, Tail(order), saved_ids)
             ELSE <<svcs[id].config>> \o saved_configs(svcs, Tail(order), saved_ids \cup {id})

\* The file of save_to_disk without the listen address of the manager.
ServicesFile_DropsListen(svcs, order, keep_alive, listen) ==
    [services   |-> saved_configs(svcs, order, {}),
     listen     |-> NoneOpt,
     keep_alive |-> IF keep_alive > 0 THEN Some(keep_alive) ELSE NoneOpt]

ServicesFile(svcs, order, keep_alive, listen) ==
    [services   |-> saved_configs(svcs, order, {}),
     listen     |-> listen,
     keep_alive |-> IF keep_alive > 0 THEN Some(keep_alive) ELSE NoneOpt]

\* ServiceManager::save_to_disk: the file after the call; written is whether
\* serialisation and fs::write succeed.
save_to_disk(file, svcs, order, keep_alive, listen, written) ==
    IF written THEN ServicesFile(svcs, order, keep_alive, listen) ELSE file

\* Vec::contains
Contains(seq, x) == \E i \in DOMAIN seq : seq[i] = x

\* upsert_service without the contains test: the id is pushed on every call.
upsert_service_AlwaysPush(svcs, order, config) ==
    LET id == config.id
    IN  [order    |-> Append(order, id),
         services |-> IF id \in DOMAIN svcs
                      THEN [svcs EXCEPT ![id].config = config]
                      ELSE [i \in DOMAIN svcs \cup {id} |->
                              IF i = id THEN ManagedService(config) ELSE svcs[i]]]

\* upsert_service inserting a fresh record for every id: the handle and the
\* last-known PID of an existing service are lost.
upsert_service_ResetsRuntime(svcs, order, config) ==
    LET id == config.id
    IN  [order    |-> IF ~Contains(order, id) THEN Append(order, id) ELSE order,
         services |-> [i \in DOMAIN svcs \cup {id} |->
                          IF i = id THEN ManagedService(config) ELSE svcs[i]]]

\* ServiceManager::upsert_service, before its save_to_disk.
upsert_service(svcs, order, config) ==
    LET id == config.id
    IN  [order    |-> IF ~Contains(order, id) THEN Append(order, id) ELSE order,
         services |-> IF id \in DOMAIN svcs
                      THEN [svcs EXCEPT ![id].config = config]
                      ELSE [i \in DOMAIN svcs \cup {id} |->
                              IF i = id THEN ManagedService(config) ELSE svcs[i]]]

\* Vec::retain(|x| x != id)
Retain(order, id) == LET Keep(x) == x # id IN SelectSeq(order, Keep)

\* remove_service ignoring the result of HashMap::remove: the order list is
\* pruned and the call goes on as if the id had been registered.
remove_entry_IgnoresMissing(svcs, order, id) ==
    [found |-> TRUE, order |-> Retain(order, id),
     services |-> [i \in DOMAIN svcs \ {id} |-> svcs[i]]]

\* ServiceManager::remove_service after its stop, before its save_to_disk.
remove_entry(svcs, order, id) ==
    IF id \in DOMAIN svcs
    THEN [found |-> TRUE, order |-> Retain(order, id),
          services |-> [i \in DOMAIN svcs \ {id} |-> svcs[i]]]
    ELSE [found |-> FALSE, order |-> order, services |-> svcs]

\* The first loop of reorder_services: the ids of new_order that are keys of
\* the map, each at its first occurrence.
RECURSIVE unique_known(_, _, _)
unique_known(keys, new_order, seen) ==
    IF new_order = <<>> THEN <<>>
    ELSE LET id == Head(new_order)
         IN  IF id \in keys /\ id \notin seen
             THEN <<id>> \o unique_known(keys, Tail(new_order), seen \cup {id})
             ELSE unique_known(keys, Tail(new_order), seen)

\* reorder_services without the `seen` set of its first loop: a repeated id
\* of new_order is pushed each time.
reorder_services_KeepsRepeats(svcs, new_order, key_order) ==
    LET Known(id)    == id \in DOMAIN svcs
        unique_order == SelectSeq(new_order, Known)
        seen         == Range(unique_order)
    IN  unique_order \o InOrder(key_order, DOMAIN svcs \ seen)

\* ServiceManager::reorder_services, before its save_to_disk: the second loop
\* walks self.services.keys(), a HashMap, in the order key_order.
reorder_services(svcs, new_order, key_order) ==
    LET unique_order == unique_known(DOMAIN svcs, new_order, {})
        seen         == Range(unique_order)
    IN  unique_order \o InOrder(key_order, DOMAIN svcs \ seen)

\* The loop of ServiceManager::new over the file's services: duplicates are
\* skipped, a process whose name equals the exec basename is adopted (find
\* over the sysinfo map walked in the order ord).
RECURSIVE load_services(_, _, _, _, _)
load_services(cfgs, pr, ord, svcs, order) ==
    IF cfgs = <<>> THEN [services |-> svcs, order |-> order]
    ELSE LET cfg == Head(cfgs)
             id  == cfg.id
         IN  IF id \in DOMAIN svcs
             THEN load_services(Tail(cfgs), pr, ord, svcs, order)
             ELSE LET exec_name == exec_file_name(cfg.exec)
                      found == InOrder(ord, {p \in Snapshot(pr) :
                                                MatchesExact(pr[p].name, exec_name)})
                      svc   == [ManagedService(cfg) EXCEPT
                                  !.last_known_pid = IF found # <<>> THEN Some(Head(found))
                                                     ELSE NoneOpt]
                  IN  load_services(Tail(cfgs), pr, ord,
                                    [i \in DOMAIN svcs \cup {id} |->
                                        IF i = id THEN svc ELSE svcs[i]],
                                    Append(order, id))

\* new inserting every entry of the file into the map: the last definition
\* of a repeated id overwrites the earlier ones.
new_LastWins(file, pr, ord) ==
    LET r == load_services(file.services, pr, ord, <<>>, <<>>)
        LastOf(id) == file.services[CHOOSE i \in DOMAIN file.services :
                          /\ file.services[i].id = id
                          /\ \A j \in DOMAIN file.services : j > i => file.services[j].id # id]
    IN  [services |-> [id \in DOMAIN r.services |->
                          [r.services[id] EXCEPT !.config = LastOf(id)]],
         order |-> r.order,
         config_listen |-> file.listen,
         keep_alive_interval |-> IF IsSome(file.keep_alive) THEN Unwrap(file.keep_alive) ELSE 0]

\* ServiceManager::new on a readable, parseable file.
new(file, pr, ord) ==
    LET r == load_services(file.services, pr, ord, <<>>, <<>>)
    IN  [services |-> r.services, order |-> r.order,
         config_listen |-> file.listen,
         keep_alive_interval |-> IF IsSome(file.keep_alive) THEN Unwrap(file.keep_alive) ELSE 0]

\* start called for each id of seq in turn, the loop left at the first start
\* that returns an error.
RECURSIVE start_each_StopsAtFailure(_, _, _, _)
start_each_StopsAtFailure(svcs, pr, seq, acc) ==
    IF seq = <<>> THEN {[services |-> svcs, procs |-> pr, starts |-> acc]}
    ELSE LET id == Head(seq)
         IN  UNION {LET r == start(svcs, pr, id, q)
                    IN  start_each_StopsAtFailure(r.services, r.procs,
                                   IF r.ok THEN Tail(seq) ELSE <<>>,
                                   Append(acc, [id |-> id, ok |-> r.ok, running |-> r.running,
                                                spawned |-> r.spawned]))
                    : q \in SpawnChoices(svcs, pr, id)}

\* start called for each id of seq in turn (main's autorun loop, the second
\* loop of a keep-alive tick): every result the spawn outcomes allow, with
\* what each start did.
RECURSIVE start_each(_, _, _, _)
start_each(svcs, pr, seq, acc) ==
    IF seq = <<>> THEN {[services |-> svcs, procs |-> pr, starts |-> acc]}
    ELSE LET id == Head(seq)
         IN  UNION {LET r == start(svcs, pr, id, q)
                    IN  start_each(r.services, r.procs, Tail(seq),
                                   Append(acc, [id |-> id, ok |-> r.ok, running |-> r.running,
                                                spawned |-> r.spawned]))
                    : q \in SpawnChoices(svcs, pr, id)}

\* The first loop of a keep-alive tick (main.rs 95-103): is_running for every
\* key, the autorun ones found not running are collected.
RECURSIVE find_dead(_, _, _, _)
find_dead(svcs, pr, all_ids, dead) ==
    IF all_ids = <<>> THEN [services |-> svcs, procs |-> pr, dead_services |-> dead]
    ELSE LET id == Head(all_ids)
             r  == is_running(svcs, pr, id)
         IN  find_dead(r.services, r.procs, Tail(all_ids),
                       IF id \in DOMAIN r.services
                          /\ AutorunOf(r.services[id].config) /\ ~r.running
                       THEN Append(dead, id) ELSE dead)

\* A keep-alive pass without its first loop: start is called for every key.
tick_StartsEveryKey(svcs, pr) ==
    UNION {start_each(svcs, pr, key_order, <<>>) : key_order \in Orders(DOMAIN svcs)}

\* One pass of the keep-alive loop body (main.rs 89-117): every result the
\* HashMap key order and the spawn outcomes allow.
tick(svcs, pr) ==
    UNION {LET d == find_dead(svcs, pr, key_order, <<>>)
           IN  start_each(d.services, d.procs, d.dead_services, <<>>)
           : key_order \in Orders(DOMAIN svcs)}

(* ------------------------------ state ------------------------------- *)
VARIABLES
    services,             \* ServiceManager.services: id -> ManagedService
    service_order,        \* ServiceManager.service_order
    keep_alive_interval,  \* ServiceManager.keep_alive_interval
    config_listen,        \* ServiceManager.config_listen
    disk,                 \* the content of services.yaml
    procs,                \* the OS process table
    phase,                \* "boot" before main has built the manager, then "run"
    monitor,              \* whether main spawned the keep-alive task
    locked,               \* the tokio Mutex around the manager
    pc,                   \* per task: "idle", "held" (owns the guard), "settle"
    restart_id,           \* the id of the restart that sleeps between stop and start
    last,                 \* what the latest manager operation did and returned
    stepsLeft             \* process events and manager operations still allowed

vars == <<services, service_order, keep_alive_interval, config_listen, disk, procs, phase, monitor,
          locked, pc, restart_id, last, stepsLeft>>

registry == <<services, service_order, keep_alive_interval, config_listen>>

Blank == [op |-> "none", id |-> "", ok |-> TRUE, running |-> FALSE, spawned |-> {},
          kills |-> <<>>, out |-> <<>>]

\* The config files main can find at startup.
Files == [services   : SeqsUpTo(Defs, MaxFile),
          listen     : Listens,
          keep_alive : {NoneOpt} \cup {Some(k) : k \in KeepAlives \ {0}}]

\* The config files of the life cycle: no repeated id, the two services that
\* share the executable name "web".
LifeFiles == {f \in Files : /\ Range(f.services) \subseteq {DefA1, DefB2}
                              /\ \A i, j \in DOMAIN f.services :
                                    i # j => f.services[i].id # f.services[j].id}

RequestIds == Ids \cup {UnknownId}

\* The state main starts from: the config file is one of files, no process
\* of interest runs yet, steps is the budget of the behaviour.
InitWith(files, steps) ==
    /\ services = <<>>
    /\ service_order = <<>>
    /\ keep_alive_interval = 0
    /\ config_listen = NoneOpt
    /\ disk \in files
    /\ procs = [p \in Pids |-> FreeProc]
    /\ phase = "boot"
    /\ monitor = FALSE
    /\ locked = FALSE
    /\ pc = [t \in Tasks |-> "idle"]
    /\ restart_id = ""
    /\ last = Blank
    /\ stepsLeft = steps

Init == InitWith(Files, MaxSteps)

(* ------------------------ the environment --------------------------- *)
\* A process the manager did not spawn starts, as a child of the live
\* process parent or of none (0).
Launch(p, name, parent) ==
    /\ stepsLeft > 0
    /\ procs[p].st = "free"
    /\ parent \in {0} \cup (Snapshot(procs) \ {p})
    /\ procs' = [procs EXCEPT ![p] = LiveProc(name, parent)]
    /\ stepsLeft' = stepsLeft - 1
    /\ last' = Blank
    /\ UNCHANGED <<registry, disk, phase, monitor, locked, pc, restart_id>>

\* A live process exits or is killed from outside the manager.
Exit(p) ==
    /\ stepsLeft > 0
    /\ procs[p].st = "live"
    /\ procs' = Die(services, procs, p)
    /\ stepsLeft' = stepsLeft - 1
    /\ last' = Blank
    /\ UNCHANGED <<registry, disk, phase, monitor, locked, pc, restart_id>>

(* ------------------------------ main -------------------------------- *)
\* main.rs 48-119: ServiceManager::new, start of every autorun service (the
\* map's values walked in the order auto_order), and the keep-alive task
\* spawned when the loaded interval is positive.
Boot(ord) ==
    /\ phase = "boot"
    /\ LET m    == new(disk, procs, ord)
           auto == {i \in DOMAIN m.services : AutorunOf(m.services[i].config)}
       IN  /\ \E auto_order \in Orders(auto) :
                 \E r \in start_each(m.services, procs, auto_order, <<>>) :
                    /\ services' = r.services
                    /\ procs' = r.procs
                    /\ last' = [Blank EXCEPT !.op = "load", !.out = r.starts]
           /\ service_order' = m.order
           /\ keep_alive_interval' = m.keep_alive_interval
           /\ config_listen' = m.config_listen
           /\ monitor' = (m.keep_alive_interval > 0)
    /\ phase' = "run"
    /\ UNCHANGED <<disk, locked, pc, restart_id, stepsLeft>>

(* --------------------------- the lock ------------------------------- *)
\* lock() handing out the guard while another task holds it.
Acquire_WhileLocked(t) ==
    /\ phase = "run"
    /\ pc[t] = "idle"
    /\ t = "monitor" => monitor
    /\ stepsLeft > 0
    /\ locked' = TRUE
    /\ pc' = [pc EXCEPT ![t] = "held"]
    /\ stepsLeft' = stepsLeft - 1
    /\ UNCHANGED <<registry, disk, procs, phase, monitor, restart_id, last>>

\* Mutex::lock().await returns the guard: the first line of every handler of
\* api.rs and of every keep-alive tick.
Acquire(t) ==
    /\ phase = "run"
    /\ pc[t] = "idle"
    /\ ~locked
    /\ t = "monitor" => monitor
    /\ stepsLeft > 0
    /\ locked' = TRUE
    /\ pc' = [pc EXCEPT ![t] = "held"]
    /\ stepsLeft' = stepsLeft - 1
    /\ UNCHANGED <<registry, disk, procs, phase, monitor, restart_id, last>>

\* The guard is dropped when the handler returns.
Release(t) ==
    /\ locked' = FALSE
    /\ pc' = [pc EXCEPT ![t] = "idle"]

Api(t) == t # "monitor" /\ pc[t] = "held"

(* ---------------------------- handlers ------------------------------ *)
\* api.rs start_service
StartService(t, id) ==
    /\ Api(t)
    /\ \E q \in SpawnChoices(services, procs, id) :
       LET r == start(services, procs, id, q)
       IN  /\ services' = r.services
           /\ procs' = r.procs
           /\ last' = [Blank EXCEPT !.op = "start", !.id = id, !.ok = r.ok,
                                    !.running = r.running, !.spawned = r.spawned]
    /\ Release(t)
    /\ UNCHANGED <<service_order, keep_alive_interval, config_listen, disk, phase, monitor, restart_id, stepsLeft>>

\* api.rs stop_service
StopService(t, id, ord) ==
    /\ Api(t)
    /\ \E fail \in SUBSET Refusable(stop(services, procs, id, {}, ord).kills) :
       LET r == stop(services, procs, id, fail, ord)
       IN  /\ services' = r.services
           /\ procs' = r.procs
           /\ last' = [Blank EXCEPT !.op = "stop", !.id = id, !.ok = r.ok,
                                    !.kills = r.kills]
    /\ Release(t)
    /\ UNCHANGED <<service_order, keep_alive_interval, config_listen, disk, phase, monitor, restart_id, stepsLeft>>

\* restart_service dropping the guard for the time of the sleep.
RestartService_ReleasesWhileAsleep(t, id, ord) ==
    /\ Api(t)
    /\ \E fail \in SUBSET Refusable(stop(services, procs, id, {}, ord).kills) :
       LET r == stop(services, procs, id, fail, ord)
       IN  /\ services' = r.services
           /\ procs' = r.procs
           /\ IF r.ok
              THEN /\ pc' = [pc EXCEPT ![t] = "settle"]
                   /\ restart_id' = id
                   /\ last' = [Blank EXCEPT !.op = "restart_stop", !.id = id,
                                            !.kills = r.kills]
                   /\ locked' = FALSE
              ELSE /\ Release(t)
                   /\ last' = [Blank EXCEPT !.op = "restart", !.id = id, !.ok = FALSE]
                   /\ UNCHANGED restart_id
    /\ UNCHANGED <<service_order, keep_alive_interval, config_listen, disk, phase, monitor, stepsLeft>>

\* api.rs restart_service up to the sleep of ServiceManager::restart: stop,
\* whose error ends the call; the guard is kept over the sleep.
RestartService(t, id, ord) ==
    /\ Api(t)
    /\ \E fail \in SUBSET Refusable(stop(services, procs, id, {}, ord).kills) :
       LET r == stop(services, procs, id, fail, ord)
       IN  /\ services' = r.services
           /\ procs' = r.procs
           /\ IF r.ok
              THEN /\ pc' = [pc EXCEPT ![t] = "settle"]
                   /\ restart_id' = id
                   /\ last' = [Blank EXCEPT !.op = "restart_stop", !.id = id,
                                            !.kills = r.kills]
                   /\ UNCHANGED locked
              ELSE /\ Release(t)
                   /\ last' = [Blank EXCEPT !.op = "restart", !.id = id, !.ok = FALSE]
                   /\ UNCHANGED restart_id
    /\ UNCHANGED <<service_order, keep_alive_interval, config_listen, disk, phase, monitor, stepsLeft>>

\* ServiceManager::restart after the sleep: start, whose result is returned.
RestartResume(t) ==
    /\ pc[t] = "settle"
    /\ \E q \in SpawnChoices(services, procs, restart_id) :
       LET r == start(services, procs, restart_id, q)
       IN  /\ services' = r.services
           /\ procs' = r.procs
           /\ last' = [Blank EXCEPT !.op = "restart", !.id = restart_id, !.ok = r.ok,
                                    !.running = r.running, !.spawned = r.spawned]
    /\ Release(t)
    /\ restart_id' = ""
    /\ UNCHANGED <<service_order, keep_alive_interval, config_listen, disk, phase, monitor, stepsLeft>>

\* api.rs list_services
ListServices(t) ==
    /\ Api(t)
    /\ LET r == list(services, procs, service_order)
       IN  /\ services' = r.services
           /\ procs' = r.procs
           /\ last' = [Blank EXCEPT !.op = "list", !.out = r.results]
    /\ Release(t)
    /\ UNCHANGED <<service_order, keep_alive_interval, config_listen, disk, phase, monitor, restart_id, stepsLeft>>


\* update_service undoing its change when the persist step fails.
UpdateService_RollsBack(t, config, written) ==
    /\ Api(t)
    /\ LET r == upsert_service(services, service_order, config)
       IN  /\ services' = IF written THEN r.services ELSE services
           /\ service_order' = IF written THEN r.order ELSE service_order
           /\ disk' = save_to_disk(disk, r.services, r.order, keep_alive_interval, config_listen, written)
           /\ last' = [Blank EXCEPT !.op = "upsert", !.id = config.id, !.ok = written,
                                    !.running = (config.id \notin DOMAIN services),
                                    !.out = <<config>>]
    /\ Release(t)
    /\ UNCHANGED <<keep_alive_interval, config_listen, procs, phase, monitor, restart_id, stepsLeft>>

\* api.rs add_service / update_service: upsert_service and its save_to_disk.
UpdateService(t, config, written) ==
    /\ Api(t)
    /\ LET r == upsert_service(services, service_order, config)
       IN  /\ services' = r.services
           /\ service_order' = r.order
           /\ disk' = save_to_disk(disk, r.services, r.order, keep_alive_interval, config_listen, written)
           /\ last' = [Blank EXCEPT !.op = "upsert", !.id = config.id, !.ok = written,
                                    !.running = (config.id \notin DOMAIN services),
                                    !.out = <<config>>]
    /\ Release(t)
    /\ UNCHANGED <<keep_alive_interval, config_listen, procs, phase, monitor, restart_id, stepsLeft>>

\* api.rs delete_service: remove_service (stop, its result dropped, then the
\* removal and save_to_disk).
DeleteService(t, id, ord, written) ==
    /\ Api(t)
    /\ \E fail \in SUBSET Refusable(stop(services, procs, id, {}, ord).kills) :
       LET s == stop(services, procs, id, fail, ord)
           e == remove_entry(s.services, service_order, id)
       IN  /\ services' = e.services
           /\ service_order' = e.order
           /\ procs' = s.procs
           /\ ~e.found => written
           /\ disk' = IF e.found
                      THEN save_to_disk(disk, e.services, e.order, keep_alive_interval, config_listen, written)
                      ELSE disk
           /\ last' = [Blank EXCEPT !.op = "remove", !.id = id,
                                    !.ok = (e.found /\ written),
                                    !.kills = s.kills]
    /\ Release(t)
    /\ UNCHANGED <<keep_alive_interval, config_listen, phase, monitor, restart_id, stepsLeft>>

\* api.rs reorder_services: ServiceManager::reorder_services and its
\* save_to_disk.
ReorderServices(t, new_order, written) ==
    /\ Api(t)
    /\ \E key_order \in Orders(DOMAIN services) :
       LET order == reorder_services(services, new_order, key_order)
       IN  /\ service_order' = order
           /\ disk' = save_to_disk(disk, services, order, keep_alive_interval, config_listen, written)
           /\ last' = [Blank EXCEPT !.op = "reorder", !.ok = written]
    /\ Release(t)
    /\ UNCHANGED <<services, keep_alive_interval, config_listen, procs, phase, monitor, restart_id, stepsLeft>>

\* api.rs get_config
GetConfig(t) ==
    /\ Api(t)
    /\ last' = [Blank EXCEPT !.op = "getKeepAlive", !.out = <<keep_alive_interval>>]
    /\ Release(t)
    /\ UNCHANGED <<registry, disk, procs, phase, monitor, restart_id, stepsLeft>>

\* api.rs update_config: set_global_config and its save_to_disk.
UpdateConfig(t, keep_alive, written) ==
    /\ Api(t)
    /\ keep_alive_interval' = keep_alive
    /\ disk' = save_to_disk(disk, services, service_order, keep_alive, config_listen, written)
    /\ last' = [Blank EXCEPT !.op = "setKeepAlive", !.ok = written, !.out = <<keep_alive>>]
    /\ Release(t)
    /\ UNCHANGED <<services, service_order, config_listen, procs, phase, monitor, restart_id, stepsLeft>>

(* ------------------------- keep-alive loop -------------------------- *)
\* One tick of main.rs 89-117 under the guard: the keys are probed, then
\* every dead autorun service is started.
MonitorTick ==
    /\ pc["monitor"] = "held"
    /\ \E r \in tick(services, procs) :
          /\ services' = r.services
          /\ procs' = r.procs
          /\ last' = [Blank EXCEPT !.op = "tick", !.out = r.starts]
    /\ Release("monitor")
    /\ UNCHANGED <<service_order, keep_alive_interval, config_listen, disk, phase, monitor, restart_id,
                   stepsLeft>>

(* --------------------------- specification -------------------------- *)
ApiTasks == Tasks \ {"monitor"}

\* The orders in which sysinfo may hand out the processes of a snapshot.
ProcOrders == Orders(Snapshot(procs))

\* External process events.
EnvNext ==
    \/ \E p \in Pids, name \in ProcNames, parent \in 0..MaxPid : Launch(p, name, parent)
    \/ \E p \in Pids : Exit(p)

BootNext == \E ord \in ProcOrders : Boot(ord)

\* The handlers that start, stop and probe processes, run by the tasks T.
LifeNext(T) ==
    \/ \E t \in T, id \in RequestIds : StartService(t, id)
    \/ \E t \in T, id \in RequestIds, ord \in ProcOrders : StopService(t, id, ord)
    \/ \E t \in T, id \in RequestIds, ord \in ProcOrders : RestartService(t, id, ord)
    \/ \E t \in T : RestartResume(t)
    \/ \E t \in T : ListServices(t)

\* The handlers that change the registry or the global config, run by the
\* tasks T.
RegistryNext(T) ==
    \/ \E t \in T, config \in Defs, written \in BOOLEAN : UpdateService(t, config, written)
    \/ \E t \in T, id \in RequestIds, ord \in ProcOrders, written \in BOOLEAN :
          DeleteService(t, id, ord, written)
    \/ \E t \in T, new_order \in SeqsUpTo(RequestIds, MaxOrder), written \in BOOLEAN :
          ReorderServices(t, new_order, written)
    \/ \E t \in T : GetConfig(t)
    \/ \E t \in T, keep_alive \in KeepAlives, written \in BOOLEAN :
          UpdateConfig(t, keep_alive, written)

TickNext == MonitorTick

\* The whole program: every task, every handler, every process event.
Next ==
    \/ EnvNext
    \/ BootNext
    \/ \E t \in Tasks : Acquire(t)
    \/ LifeNext(ApiTasks)
    \/ RegistryNext(ApiTasks)
    \/ TickNext

Spec == Init /\ [][Next]_vars

\* The handlers contending for the lock: one config file, both request
\* tasks and the monitor, no process event.
LockFiles == {[services |-> <<DefA1, DefB1>>, listen |-> l, keep_alive |-> Some(1)] : l \in Listens}

InitLock == InitWith(LockFiles, MaxLockSteps)

NextLock ==
    \/ BootNext
    \/ \E t \in Tasks : Acquire(t)
    \/ LifeNext(ApiTasks)
    \/ RegistryNext(ApiTasks)
    \/ TickNext

LockSpec == InitLock /\ [][NextLock]_vars

\* The registry alone: any config file, one request task.
InitRegistry == InitWith(Files, MaxRegistrySteps)

NextRegistry ==
    \/ BootNext
    \/ Acquire("api1")
    \/ RegistryNext({"api1"})
    \/ ListServices("api1")

RegistrySpec == InitRegistry /\ [][NextRegistry]_vars

\* The life cycle of the services of a loaded config: processes come and go,
\* one request task and the monitor act on them.
InitLife == InitWith(LifeFiles, MaxLifeSteps)

NextLife ==
    \/ EnvNext
    \/ BootNext
    \/ \E t \in {"api1", "monitor"} : Acquire(t)
    \/ LifeNext({"api1"})
    \/ TickNext

LifeSpec == InitLife /\ [][NextLife]_vars

\* The same life cycle followed one event further, for the keep-alive loop.
InitWatch == InitWith(LifeFiles, MaxWatchSteps)

WatchSpec == InitWatch /\ [][NextLife]_vars

\* A manager at work, taken at any moment of its life: the services "a"
\* (bin/web) and "b" (db) are registered, each with the runtime record a
\* history of starts, stops, adoptions, exits and PID reuse can leave, over
\* any process table that goes with it. start sets handle and last-known PID
\* together; the child carries the name of the executable of the definition
\* it was started from, which an upsert may have replaced since; a child
\* that has exited stays a zombie until its handle is polled; no two handles
\* hold the same child.
ProbeConfigs == [a |-> DefA1, b |-> DefB1]

ProbeProcs ==
    [Pids -> {FreeProc} \cup {LiveProc(n, 0) : n \in ProcNames}
                        \cup {[st |-> "zombie", name |-> n, ppid |-> 0] : n \in ProcNames}]

ProbeRecords ==
    [Ids -> {r \in [process : {NoneOpt} \cup {Some(p) : p \in Pids},
                    last_known_pid : {NoneOpt} \cup {Some(p) : p \in Pids}] :
                IsSome(r.process) => r.last_known_pid = r.process}]

ProbeConsistent(rec, pr) ==
    /\ \A i \in Ids :
          IsSome(rec[i].process) =>
             /\ pr[Unwrap(rec[i].process)].st # "free"
             /\ \A j \in Ids \ {i} : rec[j].process # rec[i].process
    /\ \A p \in Pids :
          pr[p].st = "zombie" => \E i \in Ids : rec[i].process = Some(p)

InitProbe ==
    /\ \E rec \in ProbeRecords :
          services = [i \in Ids |-> [config         |-> ProbeConfigs[i],
                                     process        |-> rec[i].process,
                                     last_known_pid |-> rec[i].last_known_pid]]
    /\ procs \in ProbeProcs
    /\ ProbeConsistent(services, procs)
    /\ service_order = <<"a", "b">>
    /\ keep_alive_interval = 0
    /\ config_listen \in Listens
    /\ disk = ServicesFile(services, service_order, keep_alive_interval, config_listen)
    /\ phase = "run"
    /\ monitor = FALSE
    /\ locked = FALSE
    /\ pc = [t \in Tasks |-> "idle"]
    /\ restart_id = ""
    /\ last = Blank
    /\ stepsLeft = MaxProbeSteps

NextProbe ==
    \/ Acquire("api1")
    \/ \E id \in RequestIds : StartService("api1", id)
    \/ \E id \in RequestIds, ord \in ProcOrders : StopService("api1", id, ord)
    \/ ListServices("api1")

ProbeSpec == InitProbe /\ [][NextProbe]_vars

(* ----------------------------- properties --------------------------- *)
\* The inputs a reorder request carries.
ReorderInputs == SeqsUpTo(RequestIds, MaxOrder)

\* seq restricted to the elements of keys, each kept at its first occurrence.
FirstOccurrences(seq, keys) ==
    LET idx == {i \in DOMAIN seq : seq[i] \in keys /\ \A j \in 1..(i - 1) : seq[j] # seq[i]}
        Nth(k) == CHOOSE i \in idx : Cardinality({j \in idx : j <= i}) = k
    IN  [k \in 1..Cardinality(idx) |-> seq[Nth(k)]]

\* seq lists every element of S exactly once and nothing else.
IsPermutationOf(seq, S) == Range(seq) = S /\ Len(seq) = Cardinality(S)

\* C1: in every state reachable from config load by upsert, remove and
\* reorder calls (a failed persist included), the order list holds exactly
\* the keys of the service map, each exactly once.
C1_OrderListsTheKeysOnce == IsPermutationOf(service_order, DOMAIN services)

\* An upsert of a new id into a non-empty registry whose persist failed.
C1_Witness ==
    /\ last.op = "upsert" /\ last.running /\ ~last.ok
    /\ Len(service_order) = 2

\* C2: for every input sequence, the order list reorder produces starts with
\* the input restricted to the registered ids, each at its first occurrence,
\* and is a permutation of the registered ids.
C2_ReorderProjectsTheInput ==
    \A new_order \in ReorderInputs : \A key_order \in Orders(DOMAIN services) :
        LET r == reorder_services(services, new_order, key_order)
            p == FirstOccurrences(new_order, DOMAIN services)
        IN  /\ Len(p) <= Len(r)
            /\ SubSeq(r, 1, Len(p)) = p
            /\ IsPermutationOf(r, DOMAIN services)

\* A reorder has run on a registry of two services and was persisted.
C2_Witness ==
    /\ last.op = "reorder" /\ last.ok
    /\ Cardinality(DOMAIN services) = 2

\* C3 (as stated): the ids reorder appends, those registered but missing
\* from the input, keep the relative order they had in the order list.
C3_AppendedKeepPriorOrder ==
    \A new_order \in ReorderInputs : \A key_order \in Orders(DOMAIN services) :
        LET r == reorder_services(services, new_order, key_order)
            p == FirstOccurrences(new_order, DOMAIN services)
            Missing(id) == id \notin Range(p)
        IN  r = p \o SelectSeq(service_order, Missing)

\* The outcomes the OS can give a spawn: rejected (0) or a free PID.
SpawnAnswers == {0} \cup {q \in Pids : procs[q].st = "free"}

\* The handle of service id if its child has not exited, else none.
LiveHandle(id) ==
    IF IsSome(services[id].process) /\ procs[Unwrap(services[id].process)].st = "live"
    THEN services[id].process ELSE NoneOpt

\* C4 (amended): start on a service for which is_running is true spawns no
\* process, returns Ok and leaves the last-known PID unchanged; the handle
\* is unchanged if its child is alive and is dropped if its child has
\* exited; and two starts in a row create at most one process.
C4_StartOnRunningSpawnsNothing ==
    \A id \in DOMAIN services :
        /\ is_running(services, procs, id).running =>
              \A q \in SpawnAnswers :
                  LET r == start(services, procs, id, q)
                  IN  /\ r.ok
                      /\ r.spawned = {}
                      /\ Snapshot(r.procs) = Snapshot(procs)
                      /\ r.services[id].last_known_pid = services[id].last_known_pid
                      /\ r.services[id].process = LiveHandle(id)
        /\ \A q1 \in SpawnChoices(services, procs, id) :
              LET r1 == start(services, procs, id, q1)
              IN  \A q2 \in SpawnChoices(r1.services, r1.procs, id) :
                      LET r2 == start(r1.services, r1.procs, id, q2)
                      IN  Cardinality(Snapshot(r2.procs) \ Snapshot(procs)) <= 1

\* A start has returned Ok on a service that was running, its child alive.
C4_Witness ==
    /\ last.op = "start" /\ last.running /\ last.ok
    /\ last.id \in DOMAIN services
    /\ LiveHandle(last.id) # NoneOpt

\* C4 (as stated): start on a running service leaves the owned handle as it
\* was before the call.
C4_StartOnRunningKeepsHandle ==
    \A id \in DOMAIN services :
        is_running(services, procs, id).running =>
            \A q \in SpawnAnswers :
                start(services, procs, id, q).services[id].process = services[id].process

\* C5 (as stated): after stop(id) with every kill taking effect, no live
\* process carries the service's basename or its ".exe" variant (compared
\* ignoring case), and is_running(id) is false.
C5_StopLeavesNoMatch ==
    \A id \in DOMAIN services : \A ord \in ProcOrders :
        LET r      == stop(services, procs, id, {}, ord)
            target == exec_file_name(services[id].config.exec)
        IN  /\ \A p \in Snapshot(r.procs) : ~MatchesRunning(r.procs[p].name, target)
            /\ ~is_running(r.services, r.procs, id).running

\* The PID stop resolves for service id: the last-known PID, else the PID
\* of the handle.
TargetPid(id) ==
    IF IsSome(services[id].last_known_pid) THEN services[id].last_known_pid
    ELSE services[id].process

\* The positions of the kills sent by way of via.
KillsVia(kills, via) == {i \in DOMAIN kills : kills[i].via \in via}

\* The kill failures the OS can answer a stop of id with.
Refusals(id, ord) == SUBSET Refusable(stop(services, procs, id, {}, ord).kills)

\* C6 (amended): when stop resolves a target PID, every process of the
\* snapshot whose parent is the target is sent its kill before the main
\* process is killed, and after stop the main process and every child are
\* gone, except those whose kill the OS refused.
C6_TreeKillChildrenFirst ==
    \A id \in DOMAIN services : \A ord \in ProcOrders : \A fail \in Refusals(id, ord) :
        IsSome(TargetPid(id)) =>
            LET t    == Unwrap(TargetPid(id))
                kids == {p \in Snapshot(procs) : procs[p].ppid = t}
                r    == stop(services, procs, id, fail, ord)
                cs   == KillsVia(r.kills, {"child"})
                ms   == KillsVia(r.kills, {"handle", "pid"})
            IN  /\ {r.kills[i].pid : i \in cs} = kids
                /\ \A i \in cs, j \in ms : i < j
                /\ \A j \in ms : r.kills[j].pid = t
                /\ t \in Snapshot(procs) => ms # {}
                /\ \A p \in (kids \cup {t}) \ fail : r.procs[p].st # "live"

\* A stop has killed a child of the target and then the main process.
C6_Witness ==
    /\ last.op = "stop" /\ last.ok
    /\ \E i, j \in DOMAIN last.kills :
          /\ i < j
          /\ last.kills[i].via = "child" /\ last.kills[i].done
          /\ last.kills[j].via \in {"handle", "pid"} /\ last.kills[j].done

\* C6 (as stated): after stop neither the main process nor any child of the
\* target is alive, whatever the OS answers to the kills.
C6_TreeKillLeavesNoneAlive ==
    \A id \in DOMAIN services : \A ord \in ProcOrders : \A fail \in Refusals(id, ord) :
        IsSome(TargetPid(id)) =>
            LET t    == Unwrap(TargetPid(id))
                kids == {p \in Snapshot(procs) : procs[p].ppid = t}
                r    == stop(services, procs, id, fail, ord)
            IN  \A p \in kids \cup {t} : r.procs[p].st # "live"

\* Whether every start of a tick that reached spawn got its process.
SpawnsSucceed(r) == \A i \in DOMAIN r.starts : r.starts[i].ok

\* Whether a live process of pr carries the basename of service id (or its
\* ".exe" variant).
HasProcess(svcs, pr, id) ==
    \E p \in Snapshot(pr) : MatchesRunning(pr[p].name, exec_file_name(svcs[id].config.exec))

\* C7 (as stated): with the keep-alive loop running, an autorun service
\* whose process (its last-known PID is recorded) is gone, no live process
\* carrying its basename, has a process again after two ticks whose spawns
\* succeed.
C7_KeepAliveRestartsWithinTwoTicks ==
    (phase = "run" /\ monitor) =>
        \A id \in DOMAIN services :
            (/\ AutorunOf(services[id].config)
             /\ IsSome(services[id].last_known_pid)
             /\ ~HasProcess(services, procs, id)) =>
                \A r1 \in tick(services, procs) : \A r2 \in tick(r1.services, r1.procs) :
                    (SpawnsSucceed(r1) /\ SpawnsSucceed(r2)) => HasProcess(r2.services, r2.procs, id)

\* The ids of the entries of a config file, in file order.
FileIds(file) == [i \in DOMAIN file.services |-> file.services[i].id]

\* The first entry of the file that carries id.
FirstEntry(file, id) ==
    file.services[CHOOSE i \in DOMAIN file.services :
                     /\ file.services[i].id = id
                     /\ \A j \in 1..(i - 1) : file.services[j].id # id]

\* C8: loading a config file yields one map entry and one order-list entry
\* per id of the file, holding the definition of the id's first entry, the
\* order list following the file order of the first entries.
C8_LoadKeepsFirstOccurrence ==
    \A ord \in ProcOrders :
        LET m   == new(disk, procs, ord)
            ids == Range(FileIds(disk))
        IN  /\ DOMAIN m.services = ids
            /\ m.order = FirstOccurrences(FileIds(disk), ids)
            /\ \A id \in ids : m.services[id].config = FirstEntry(disk, id)

\* A file with two different definitions of one id has been loaded and the
\* registry holds the first.
C8_Witness ==
    /\ last.op = "load"
    /\ \E i, j \in DOMAIN disk.services :
          /\ i < j
          /\ disk.services[i].id = disk.services[j].id
          /\ disk.services[i] # disk.services[j]
          /\ services[disk.services[i].id].config = disk.services[i]
    /\ Len(service_order) = 1

\* C9: list returns one snapshot per registered id, in order-list order,
\* each with the service's current definition; and right after the upsert
\* of a new id that no process matches, the last snapshot carries the new
\* definition, running false and no PID.
C9_ListFollowsOrder ==
    /\ LET r == list(services, procs, service_order)
       IN  /\ Len(r.results) = Len(service_order)
           /\ \A i \in DOMAIN service_order :
                 r.results[i].config = services[service_order[i]].config
           /\ IsPermutationOf([i \in DOMAIN r.results |-> r.results[i].config.id],
                              DOMAIN services)
    /\ \A config \in Defs :
          (/\ config.id \notin DOMAIN services
           /\ \A p \in Snapshot(procs) :
                 ~MatchesRunning(procs[p].name, exec_file_name(config.exec))) =>
              LET u == upsert_service(services, service_order, config)
                  r == list(u.services, procs, u.order)
                  e == r.results[Len(r.results)]
              IN  /\ Len(r.results) = Len(service_order) + 1
                  /\ e = [config |-> config, running |-> FALSE, pid |-> NoneOpt]

\* A list has returned the snapshots of two services.
C9_Witness ==
    /\ last.op = "list"
    /\ Len(last.out) = 2
    /\ \A i \in 1..2 : last.out[i].config = services[service_order[i]].config

\* C10: at most one task is inside a controller operation, and the lock is
\* held exactly while one is, the sleep of a restart included.
C10_OneOperationAtATime ==
    /\ Cardinality({t \in Tasks : pc[t] # "idle"}) <= 1
    /\ locked <=> \E t \in Tasks : pc[t] # "idle"

\* A restart sleeps between its stop and its start, holding the lock, while
\* the budget would let another task ask for it.
C10_Witness ==
    /\ \E t \in Tasks : pc[t] = "settle"
    /\ locked
    /\ stepsLeft > 0

\* Whether some task is inside a handler, about to run its body.
InHandler == \E t \in Tasks : pc[t] = "held"

\* C11: start, stop, restart and remove called with an id that is not in the
\* registry return an error, spawn and kill no process, and leave the
\* service map, the order list, the runtime records, the process table and
\* the persisted file unchanged.
C11_UnknownIdChangesNothing ==
    [][(/\ InHandler
        /\ last'.op \in {"start", "stop", "restart", "remove"}
        /\ last'.id \notin DOMAIN services) =>
           (/\ ~last'.ok
            /\ last'.spawned = {}
            /\ last'.kills = <<>>
            /\ UNCHANGED <<services, service_order, keep_alive_interval, config_listen, disk, procs>>)]_vars

\* A stop of an unknown id has returned its error.
C11_Witness ==
    /\ last.op = "stop"
    /\ last.id = UnknownId
    /\ ~last.ok

\* The processes a stop of service id goes after: the children of the target
\* PID and the processes carrying the exec basename.
StopTargets(id) ==
    (IF IsSome(TargetPid(id))
     THEN {p \in Snapshot(procs) : procs[p].ppid = Unwrap(TargetPid(id))} ELSE {})
    \cup {p \in Snapshot(procs) :
            MatchesExact(procs[p].name, exec_file_name(services[id].config.exec))}

\* C12: stop on a registered id returns Ok and runs to its end whatever the
\* OS answers to each kill: every process it goes after whose kill is not
\* refused is gone, every survivor was sent its kill, and the last-known
\* PID is cleared.
C12_StopAbsorbsKillFailures ==
    \A id \in DOMAIN services : \A ord \in ProcOrders : \A fail \in Refusals(id, ord) :
        LET r == stop(services, procs, id, fail, ord)
        IN  /\ r.ok
            /\ r.services[id].last_known_pid = NoneOpt
            /\ \A p \in StopTargets(id) \ fail : r.procs[p].st # "live"
            /\ \A p \in StopTargets(id) \cap Snapshot(r.procs) :
                  \E i \in DOMAIN r.kills : r.kills[i].pid = p /\ ~r.kills[i].done

\* A stop has returned Ok after a refused kill that was followed by a kill
\* that took effect.
C12_Witness ==
    /\ last.op = "stop" /\ last.ok
    /\ \E i, j \in DOMAIN last.kills :
          i < j /\ ~last.kills[i].done /\ last.kills[j].done

\* C13: when the OS rejects the spawn, start returns an error after exactly
\* one spawn attempt, creates no process, and leaves the registry as the
\* preceding is_running check left it: no handle, the last-known PID as it
\* was.
C13_RejectedSpawnIsAnError ==
    \A id \in DOMAIN services :
        LET c == is_running(services, procs, id)
            r == start(services, procs, id, 0)
        IN  ~c.running =>
               /\ ~r.ok
               /\ r.attempts = 1
               /\ r.spawned = {}
               /\ r.services = c.services
               /\ r.procs = c.procs
               /\ r.services[id].process = NoneOpt
               /\ r.services[id].last_known_pid = services[id].last_known_pid

\* A start of a registered service has failed at its spawn.
C13_Witness ==
    /\ last.op = "start"
    /\ last.id \in DOMAIN services
    /\ ~last.ok /\ ~last.running /\ last.spawned = {}
    /\ services[last.id].process = NoneOpt

\* The full in-memory state as a file: the definitions in order-list order,
\* the listen address, the keep-alive interval, absent when 0.
FullState(svcs, order, keep_alive, listen) ==
    [services   |-> [i \in DOMAIN order |-> svcs[order[i]].config],
     listen     |-> listen,
     keep_alive |-> IF keep_alive = 0 THEN NoneOpt ELSE Some(keep_alive)]

\* The in-memory change each mutating handler makes, whatever becomes of its
\* persist step.
MutationApplied ==
    CASE last'.op = "upsert" ->
            LET r == upsert_service(services, service_order, last'.out[1])
            IN  /\ services' = r.services
                /\ service_order' = r.order
                /\ keep_alive_interval' = keep_alive_interval
      [] last'.op = "remove" ->
            /\ services' = [i \in DOMAIN services \ {last'.id} |-> services[i]]
            /\ service_order' = Retain(service_order, last'.id)
            /\ keep_alive_interval' = keep_alive_interval
      [] last'.op = "reorder" ->
            /\ \E new_order \in ReorderInputs : \E key_order \in Orders(DOMAIN services) :
                  service_order' = reorder_services(services, new_order, key_order)
            /\ services' = services
            /\ keep_alive_interval' = keep_alive_interval
      [] last'.op = "setKeepAlive" ->
            /\ keep_alive_interval' = last'.out[1]
            /\ services' = services
            /\ service_order' = service_order

\* C14: a mutating handler (upsert, remove of a registered id, reorder,
\* setKeepAlive) applies its change in memory whether or not the persist
\* step succeeds; when the persist fails the handler returns an error and
\* the file stays as it was; when it succeeds the file holds the full
\* current state.
C14_FailedPersistKeepsMutation ==
    [][(/\ InHandler
        /\ last'.op \in {"upsert", "remove", "reorder", "setKeepAlive"}
        /\ last'.op = "remove" => last'.id \in DOMAIN services) =>
           (/\ MutationApplied
            /\ ~last'.ok => disk' = disk
            /\ last'.ok => disk' = FullState(services', service_order', keep_alive_interval', config_listen'))]_vars

\* An upsert of a new id has failed at its persist step: the registry holds
\* the new service, the file does not.
C14_Witness ==
    /\ last.op = "upsert" /\ ~last.ok /\ last.running
    /\ last.id \in DOMAIN services
    /\ disk # FullState(services, service_order, keep_alive_interval, config_listen)

\* C15: upsert appends a new id at the end of the order list with a fresh
\* record; for an existing id it replaces the definition, keeping its
\* position, its handle and its last-known PID; every other record and
\* every other position is unchanged.
C15_UpsertFrame ==
    \A config \in Defs :
        LET id == config.id
            r  == upsert_service(services, service_order, config)
        IN  /\ DOMAIN r.services = DOMAIN services \cup {id}
            /\ \A other \in DOMAIN services \ {id} : r.services[other] = services[other]
            /\ r.services[id].config = config
            /\ IF id \in DOMAIN services
               THEN /\ r.order = service_order
                    /\ r.services[id].process = services[id].process
                    /\ r.services[id].last_known_pid = services[id].last_known_pid
               ELSE /\ r.order = Append(service_order, id)
                    /\ r.services[id].process = NoneOpt
                    /\ r.services[id].last_known_pid = NoneOpt

\* An upsert has replaced the definition of a service that holds a handle.
C15_Witness ==
    /\ last.op = "upsert" /\ ~last.running
    /\ last.id \in DOMAIN services
    /\ services[last.id].config = last.out[1]
    /\ last.out[1] = DefA2
    /\ IsSome(services[last.id].process)

\* Whether some task is inside a controller operation (a restart asleep
\* included).
InOperation == \E t \in Tasks : pc[t] # "idle"

\* Whether loading file gives the ids, the order, the definitions, the listen
\* address and the interval the manager holds after the step.
LoadsBack(file) ==
    \A ord \in Orders(Snapshot(procs')) :
        LET m == new(file, procs', ord)
        IN  /\ m.order = service_order'
            /\ DOMAIN m.services = DOMAIN services'
            /\ \A id \in DOMAIN services' : m.services[id].config = services'[id].config
            /\ m.keep_alive_interval = keep_alive_interval'
            /\ m.config_listen = config_listen'

\* C16: after a successful upsert, remove, reorder or setKeepAlive the file
\* holds the full in-memory state (definitions in order-list order, listen
\* address, keep-alive interval with 0 written as absent) and loading it
\* gives that state back; start, stop, restart, list and a monitor tick
\* never write the file.
C16_PersistedStateIsFullState ==
    [][InOperation =>
          /\ (last'.op \in {"upsert", "remove", "reorder", "setKeepAlive"} /\ last'.ok) =>
                (/\ disk' = FullState(services', service_order', keep_alive_interval',
                                      config_listen')
                 /\ LoadsBack(disk'))
          /\ last'.op \in {"start", "stop", "restart_stop", "restart", "list", "tick",
                           "getKeepAlive"} => disk' = disk]_vars

\* A setKeepAlive(0) has been persisted: the file carries no keep-alive entry
\* and still lists the registered services.
C16_Witness ==
    /\ last.op = "setKeepAlive" /\ last.ok
    /\ keep_alive_interval = 0
    /\ disk.keep_alive = NoneOpt
    /\ Len(disk.services) = Cardinality(DOMAIN services)
    /\ DOMAIN services # {}


\* C17 (as stated): while the keep-alive interval is 0, whether it was loaded
\* as 0 or set to 0 by setKeepAlive, the monitor takes no turn: it neither
\* holds the lock for a tick nor has a tick been the latest operation.
C17_NoTickAtIntervalZero ==
    keep_alive_interval = 0 =>
        /\ pc["monitor"] = "idle"
        /\ last.op # "tick"


\* Whether the step ran stop(id) to its end with success: some outcome of its
\* kills gives the runtime records and the process table after the step.
StopRanToItsEnd(id) ==
    \E ord \in ProcOrders :
        \E fail \in SUBSET Refusable(stop(services, procs, id, {}, ord).kills) :
            LET r == stop(services, procs, id, fail, ord)
            IN  r.ok /\ services' = r.services /\ procs' = r.procs /\ last'.kills = r.kills

\* Whether the step ran start(id) and answered with its result.
StartAnswered(id) ==
    \E q \in SpawnChoices(services, procs, id) :
        LET r == start(services, procs, id, q)
        IN  /\ services' = r.services /\ procs' = r.procs
            /\ last'.ok = r.ok /\ last'.spawned = r.spawned

\* C18: restart(id) runs stop(id) to its end, sleeps and then runs start(id),
\* the lock held from the first to the last (no other task enters, nothing
\* of the manager changes during the sleep); an error of stop is the answer
\* of restart and start is not run; otherwise the answer is that of start.
C18_RestartIsStopSettleStart ==
    [][\A t \in ApiTasks :
          /\ (pc[t] = "held" /\ last'.op = "restart_stop") =>
                /\ StopRanToItsEnd(last'.id)
                /\ pc'[t] = "settle" /\ locked' /\ restart_id' = last'.id
          /\ (pc[t] = "held" /\ last'.op = "restart") =>
                /\ \A ord \in ProcOrders : ~stop(services, procs, last'.id, {}, ord).ok
                /\ ~last'.ok /\ last'.spawned = {}
                /\ services' = services /\ procs' = procs
          /\ pc[t] = "settle" =>
                /\ locked
                /\ \A u \in Tasks \ {t} : pc[u] = "idle" /\ pc'[u] = "idle"
                /\ UNCHANGED <<service_order, keep_alive_interval, config_listen, disk>>
                /\ \/ /\ pc'[t] = "idle" /\ ~locked'
                      /\ last'.op = "restart" /\ last'.id = restart_id
                      /\ StartAnswered(restart_id)
                   \/ /\ pc'[t] = "settle" /\ locked' /\ restart_id' = restart_id
                      /\ services' = services]_vars

\* A restart has answered with the success of its start, which spawned a
\* process, and has let go of the lock.
C18_Witness ==
    /\ last.op = "restart" /\ last.ok
    /\ last.spawned # {}
    /\ \A t \in Tasks : pc[t] = "idle"
    /\ ~locked


\* The three tiers of the running test for a registered id, read off the
\* state before the call: the handle's child has not exited; the last-known
\* PID is among the live processes; a live process carries the basename.
HandleAlive(id) ==
    IsSome(services[id].process) /\ procs[Unwrap(services[id].process)].st = "live"

PidAlive(id) ==
    IsSome(services[id].last_known_pid) /\ procs[Unwrap(services[id].last_known_pid)].st = "live"

NameAlive(id) ==
    \E p \in Pids : /\ procs[p].st = "live"
                    /\ MatchesRunning(procs[p].name, exec_file_name(services[id].config.exec))

\* C19: is_running(id) is true exactly when the handle's child has not
\* exited, or else the last-known PID is in the refreshed snapshot, or else a
\* process of the snapshot matches the basename; a handle whose child has
\* exited is cleared and a live one is kept; the answer is false for an
\* unknown id; the last-known PID, the definitions, the other records and
\* the order list are as before, and no live process is touched.
C19_IsRunningThreeTiers ==
    phase = "run" =>
        \A id \in RequestIds :
            LET r == is_running(services, procs, id)
            IN  /\ DOMAIN r.services = DOMAIN services
                /\ Snapshot(r.procs) = Snapshot(procs)
                /\ \A p \in Snapshot(procs) : r.procs[p] = procs[p]
                /\ id \notin DOMAIN services =>
                      ~r.running /\ r.services = services /\ r.procs = procs
                /\ id \in DOMAIN services =>
                      /\ r.running <=> (HandleAlive(id) \/ PidAlive(id) \/ NameAlive(id))
                      /\ HandleAlive(id) => r.services = services /\ r.procs = procs
                      /\ ~HandleAlive(id) => r.services[id].process = NoneOpt
                      /\ r.services[id].last_known_pid = services[id].last_known_pid
                      /\ r.services[id].config = services[id].config
                      /\ \A i \in DOMAIN services \ {id} : r.services[i] = services[i]

\* A list has answered "running" for service "a" on its last-known PID
\* alone: "a" holds no handle, the PID belongs to a live process, and no live
\* process carries the name of its executable.
C19_Witness ==
    /\ last.op = "list"
    /\ Len(last.out) = 2
    /\ last.out[1].config.id = "a" /\ last.out[1].running
    /\ services["a"].process = NoneOpt
    /\ PidAlive("a")
    /\ ~NameAlive("a")


\* C20: stop on a registered id leaves the service with no handle and no
\* last-known PID, whatever record it had (a handle, a PID alone, nothing)
\* and whichever of its kills the OS refuses; its definition is kept.
C20_StopForgetsTheProcess ==
    phase = "run" =>
        \A id \in DOMAIN services : \A ord \in ProcOrders : \A fail \in Refusals(id, ord) :
            LET r == stop(services, procs, id, fail, ord)
            IN  /\ r.services[id].process = NoneOpt
                /\ r.services[id].last_known_pid = NoneOpt
                /\ r.services[id].config = services[id].config

\* A stop has returned after the kill of the tracked PID was refused: the
\* process lives on, and the service records neither handle nor PID.
C20_Witness ==
    /\ last.op = "stop" /\ last.ok
    /\ \E i \in DOMAIN last.kills :
          /\ last.kills[i].via = "pid" /\ ~last.kills[i].done
          /\ procs[last.kills[i].pid].st = "live"
    /\ services[last.id].process = NoneOpt
    /\ services[last.id].last_known_pid = NoneOpt


\* C21 (as stated): a liveness check that finds a service running leaves it
\* with a last-known PID (the process it recognised by name is adopted), and
\* a last-known PID is cleared only in a step after which the process that
\* carried it is gone.
C21_PidSetOnAdoptionClearedWhenGone ==
    [][InOperation =>
          /\ last'.op = "list" =>
                \A i \in DOMAIN last'.out :
                    last'.out[i].running =>
                        IsSome(services'[last'.out[i].config.id].last_known_pid)
          /\ \A id \in DOMAIN services \cap DOMAIN services' :
                (/\ IsSome(services[id].last_known_pid)
                 /\ services'[id].last_known_pid = NoneOpt)
                => procs'[Unwrap(services[id].last_known_pid)].st # "live"]_vars


\* The target PID of stop resolved handle first, as the specification reads.
TargetPidHandleFirst(svc) ==
    IF IsSome(svc.process) THEN svc.process ELSE svc.last_known_pid

\* The target PID of stop resolved as the code does (manager.rs 199-201).
TargetPidOf(svc) ==
    IF IsSome(svc.last_known_pid) THEN svc.last_known_pid ELSE svc.process

\* Whether every record of svcs that holds a handle records the PID of that
\* handle as its last-known PID, so that both resolutions agree.
HandleIsLastKnown(svcs) ==
    \A id \in DOMAIN svcs :
        /\ IsSome(svcs[id].process) => svcs[id].last_known_pid = svcs[id].process
        /\ TargetPidOf(svcs[id]) = TargetPidHandleFirst(svcs[id])

\* C22: between operations, a service that holds a handle has the PID of the
\* handle as its last-known PID, and the target PID of stop is the same
\* whether the last-known PID or the handle is looked at first; every start
\* the state allows keeps it so.
C22_HandlePidIsLastKnownPid ==
    /\ HandleIsLastKnown(services)
    /\ phase = "run" =>
          \A id \in DOMAIN services : \A q \in SpawnChoices(services, procs, id) :
              HandleIsLastKnown(start(services, procs, id, q).services)

\* A start has spawned a child, another PID being free: the handle and the
\* last-known PID of the service both name the child.
C22_Witness ==
    /\ last.op = "start" /\ last.ok
    /\ \E q \in Pids :
          /\ last.spawned = {q}
          /\ services[last.id].process = Some(q)
          /\ services[last.id].last_known_pid = Some(q)
          /\ procs[q].st = "live"
          /\ \E p \in Pids \ {q} : procs[p].st = "free"


\* Whether the running test finds service id running in the current state.
FoundRunning(id) == HandleAlive(id) \/ PidAlive(id) \/ NameAlive(id)

\* C23: a keep-alive tick calls start only for services that are marked
\* autorun and were not running when the tick looked, each at most once; a
\* service whose autorun flag is false or absent gets no handle and no PID
\* from a tick; a tick spawns at most one process per service, and every
\* process that is new after the tick was spawned by one of its starts.
C23_TickStartsOnlyDeadAutorun ==
    (phase = "run" /\ monitor) =>
        \A r \in tick(services, procs) :
            /\ \A i \in DOMAIN r.starts :
                  LET e == r.starts[i]
                  IN  /\ e.id \in DOMAIN services
                      /\ AutorunOf(services[e.id].config)
                      /\ ~FoundRunning(e.id)
                      /\ Cardinality(e.spawned) <= 1
                      /\ \A j \in DOMAIN r.starts : j # i => r.starts[j].id # e.id
            /\ \A id \in DOMAIN services :
                  ~AutorunOf(services[id].config) =>
                      /\ r.services[id].process \in {services[id].process, NoneOpt}
                      /\ r.services[id].last_known_pid = services[id].last_known_pid
            /\ \A p \in Snapshot(r.procs) :
                  (p \notin Snapshot(procs) \/ r.procs[p] # procs[p]) =>
                      \E i \in DOMAIN r.starts : r.starts[i].spawned = {p}

\* A tick has spawned a process for an autorun service while a service that is
\* not marked autorun, without handle or PID, was left alone.
C23_Witness ==
    /\ last.op = "tick"
    /\ \E i \in DOMAIN last.out :
          /\ last.out[i].spawned # {}
          /\ AutorunOf(services[last.out[i].id].config)
    /\ \E id \in DOMAIN services :
          /\ ~AutorunOf(services[id].config)
          /\ services[id].process = NoneOpt
          /\ services[id].last_known_pid = NoneOpt


\* The autorun services the running test finds not running in the state.
DeadAutorun ==
    {id \in DOMAIN services : AutorunOf(services[id].config) /\ ~FoundRunning(id)}

\* The ids a pass of the keep-alive loop called start for.
StartedIds(starts) == {starts[i].id : i \in DOMAIN starts}

\* C24: a start that fails inside a keep-alive tick does not end the tick or
\* the loop: the tick calls start for every dead autorun service, those
\* after the failed one included; it ends with the lock released and the
\* keep-alive task still in place; and the next tick calls start again for
\* each service whose start failed and that is still not running, with a
\* spawn when the OS grants one.
C24_FailedStartDoesNotHaltMonitor ==
    [][(pc["monitor"] = "held" /\ last'.op = "tick") =>
          /\ StartedIds(last'.out) = DeadAutorun
          /\ ~locked' /\ pc'["monitor"] = "idle" /\ monitor'
          /\ \A i \in DOMAIN last'.out :
                LET id == last'.out[i].id
                IN  (~last'.out[i].ok
                     /\ ~is_running(services', procs', id).running) =>
                        /\ \A r \in tick(services', procs') : id \in StartedIds(r.starts)
                        /\ (\E q \in Pids : procs'[q].st = "free") =>
                              \E r \in tick(services', procs') :
                                  \E j \in DOMAIN r.starts :
                                      r.starts[j].id = id /\ r.starts[j].spawned # {}]_vars

\* A tick has gone on after a failed start: its first start was rejected,
\* its second spawned a process, and the lock is free for the next tick.
C24_Witness ==
    /\ last.op = "tick"
    /\ Len(last.out) = 2
    /\ ~last.out[1].ok
    /\ last.out[2].ok /\ last.out[2].spawned # {}
    /\ ~locked /\ monitor
    /\ pc["monitor"] = "idle"


\* The live process the manager spawned for service id and still holds: the
\* child of the handle of id (a record has one handle).
Owned(svcs, pr, id) ==
    {p \in Pids : id \in DOMAIN svcs /\ svcs[id].process = Some(p) /\ pr[p].st = "live"}

\* Whether an operation that leaves the records svcs2 and the process table
\* pr2 keeps the children in hand: a child that was held and alive is still
\* the child of its service or is no longer alive; every process that is new
\* is held by a handle; no two handles hold the same child.
KeepsOneChild(svcs2, pr2) ==
    /\ \A id \in DOMAIN services : \A p \in Owned(services, procs, id) :
          p \in Owned(svcs2, pr2, id) \/ pr2[p].st # "live"
    /\ \A p \in Snapshot(pr2) \ Snapshot(procs) :
          \E id \in DOMAIN svcs2 : svcs2[id].process = Some(p)
    /\ \A i, j \in DOMAIN svcs2 :
          (i # j /\ IsSome(svcs2[i].process)) => svcs2[j].process # svcs2[i].process

\* C25: every operation of the manager keeps at most one live spawned
\* process per service. start, stop, restart (stop, then start), remove
\* (stop, then the record dropped), upsert, list, a keep-alive tick and the
\* exit of a process each leave every child that was alive either held by
\* its service or dead, and every new process held by the one handle of its
\* service: a handle is given up only for a child that has exited or has
\* been killed and waited for.
C25_OneSpawnedProcessPerService ==
    phase = "run" =>
        /\ \A i, j \in DOMAIN services :
              (i # j /\ IsSome(services[i].process)) => services[j].process # services[i].process
        /\ \A id \in RequestIds :
              /\ \A q \in SpawnChoices(services, procs, id) :
                    LET r == start(services, procs, id, q)
                    IN  KeepsOneChild(r.services, r.procs)
              /\ \A ord \in ProcOrders : \A fail \in Refusals(id, ord) :
                    LET s == stop(services, procs, id, fail, ord)
                        e == remove_entry(s.services, service_order, id)
                    IN  /\ KeepsOneChild(s.services, s.procs)
                        /\ KeepsOneChild(e.services, s.procs)
                        /\ s.ok => \A q \in SpawnChoices(s.services, s.procs, id) :
                                      LET r == start(s.services, s.procs, id, q)
                                      IN  KeepsOneChild(r.services, r.procs)
        /\ \A config \in Defs :
              KeepsOneChild(upsert_service(services, service_order, config).services, procs)
        /\ LET l == list(services, procs, service_order)
           IN  KeepsOneChild(l.services, l.procs)
        /\ \A r \in tick(services, procs) : KeepsOneChild(r.services, r.procs)
        /\ \A p \in Snapshot(procs) : KeepsOneChild(services, Die(services, procs, p))

\* A stop has killed the live child of a handle and waited for it: the handle
\* is given up and the PID of the child is free again.
C25_Witness ==
    /\ last.op = "stop" /\ last.ok
    /\ \E i \in DOMAIN last.kills :
          /\ last.kills[i].via = "handle"
          /\ procs[last.kills[i].pid].st = "free"
    /\ services[last.id].process = NoneOpt
    /\ Owned(services, procs, last.id) = {}


\* C26 (as stated): a stop of service a leaves alone every other registered
\* service b whose executable basename differs from that of a: the live
\* child b holds, which carries the basename of b, is alive after the stop,
\* and the handle and the last-known PID of b are as before.
C26_StopSparesOtherServices ==
    [][(InHandler /\ last'.op = "stop" /\ last'.id \in DOMAIN services) =>
          \A b \in DOMAIN services \ {last'.id} :
              ~eq_ignore_ascii_case(exec_file_name(services[b].config.exec),
                                    exec_file_name(services[last'.id].config.exec)) =>
                  /\ \A p \in Owned(services, procs, b) :
                        MatchesExact(procs[p].name, exec_file_name(services[b].config.exec))
                        => procs'[p].st = "live"
                  /\ services'[b].process = services[b].process
                  /\ services'[b].last_known_pid = services[b].last_known_pid]_vars

=============================================================================
